---- MODULE Spec2Model ----
(***************************************************************************)
(* HipchatBot (src/index.js): an XMPP client that keeps a directory of     *)
(* contacts, correlates outgoing requests with inbound units through       *)
(* this.resolvers, and bridges chat / groupchat messages to botbuilder     *)
(* dialog sessions.                                                        *)
(*                                                                         *)
(* One inbound unit is processed in two steps: Arrive (the transport       *)
(* raises the 'stanza' event with the unit) and Classify (the body of the  *)
(* event callback: the whole handler chain, run to completion).            *)
(***************************************************************************)
EXTENDS Naturals, Integers, Sequences, FiniteSets, TLC

\* ------------------------------------------------------------------ bounds
\* uuid.v1() values drawn by send / sendChat / fullProfile
MaxIds == 1
\* inbound units delivered by the transport
MaxUnits == 3
\* dialog sessions started
MaxConvs == 1
\* items in one roster reply
MaxItems == 2
\* dialog sessions in progress at once, where their overlap is studied
MaxOverlap == 2

\* ------------------------------------------------------------ JS values
\* JavaScript undefined, for a field that holds text
Absent == "undefined"
\* an XML child element or attribute that the unit does not carry
Missing == "missing"

\* new XmppClient.JID(...): a bare address and a resource ("" when none)
JID(b, r) == [bare |-> b, resource |-> r]
\* a JID-valued field that is undefined
NoJID == JID("", "")
\* jid.bare()
Bare(j) == [j EXCEPT !.resource = ""]
\* jid.bare().toString()
BareStr(j) == Bare(j).bare
\* jid.getResource()
getResource(j) == j.resource
\* jid.toString()
JidString(j) == IF j.resource = "" THEN j.bare ELSE j.bare \o "/" \o j.resource

\* a message id: the text 'profile:' or nothing, followed by a uuid
Id(p, n) == [prefix |-> p, uuid |-> n]
\* stanza.attrs.id undefined
NoId == Id("", 0)
\* (stanza.attrs.id || '').indexOf('profile:') == 0
HasProfilePrefix(id) == id.prefix = "profile:"

\* Number(attrs.utc_offset), written as the text of the resulting number
Number(a) == IF a = Missing THEN "NaN" ELSE a

\* the object {} that a contact starts from
NewBuddy ==
  [jid |-> NoJID, name |-> Absent, mention_name |-> Absent,
   timezone |-> Absent, utc_offset |-> Absent, presence |-> Absent]

\* ------------------------------------------------------------ directory
\* this.directory is a JS object: keys in insertion order, one buddy per key.
HasKey(dir, k) == \E i \in 1..Len(dir) : dir[i].key = k

KeyIndex(dir, k) == CHOOSE i \in 1..Len(dir) : dir[i].key = k

\* this.directory[k] || {}
BuddyOrNew(dir, k) == IF HasKey(dir, k) THEN dir[KeyIndex(dir, k)].buddy ELSE NewBuddy

\* this.directory[k] = buddy
PutBuddy(dir, k, b) ==
  IF HasKey(dir, k)
  THEN [dir EXCEPT ![KeyIndex(dir, k)].buddy = b]
  ELSE Append(dir, [key |-> k, buddy |-> b])

\* _.find(_.values(this.directory), (u) => Object.is(u.name, nick)): the index
\* of the first match in insertion order, 0 when there is none
FindByName(dir, nick) ==
  LET hits == {i \in 1..Len(dir) : dir[i].buddy.name = nick}
  IN IF hits = {} THEN 0 ELSE CHOOSE i \in hits : \A j \in hits : i <= j

\* ------------------------------------------------------------- variables
VARIABLES
  conn,         \* listen(): "new", "connecting", "online", "handshake", "alive"
  profile,      \* this.profile
  directory,    \* this.directory
  resolvers,    \* the keys of this.resolvers
  futures,      \* the promise behind each resolver
  nextUuid,     \* the next value of uuid.v1()
  unit,         \* the unit of the 'stanza' event being raised
  unitsSeen,    \* how many units the transport has delivered
  convs,        \* the dialog sessions started by maybeMessage
  sessionStore, \* options.sessionStore
  userStore,    \* options.userStore
  emitted,      \* the events this last step emitted on the bot
  sent,         \* the units this last step handed to client.send
  raised        \* whether this last step ended in a thrown TypeError

vars == <<conn, profile, directory, resolvers, futures, nextUuid, unit, unitsSeen,
          convs, sessionStore, userStore, emitted, sent, raised>>

\* ------------------------------------------------------------------ units
\* An inbound unit: stanza.name, stanza.attrs.{type,id,from,to}, the text of
\* its body child, and its vCard, query, show and x/invite children.
NoVCard == [present |-> FALSE, FN |-> Missing]

VCard(fn) == [present |-> TRUE, FN |-> fn]

NoQuery ==
  [present |-> FALSE, items |-> <<>>, name |-> Missing, mention_name |-> Missing,
   timezone |-> Missing, utc_offset |-> Missing]

\* a roster query: item children only
RosterQuery(items) == [NoQuery EXCEPT !.present = TRUE, !.items = items]

\* a profile query: name / mention_name / timezone children
ProfileQuery(n, mn, tz, off) ==
  [present |-> TRUE, items |-> <<>>, name |-> n, mention_name |-> mn,
   timezone |-> tz, utc_offset |-> off]

Item(j, n, mn) == [jid |-> j, name |-> n, mention_name |-> mn]

Stanza(nm, ty, id, from, to, body, vc, q, show, inv) ==
  [name |-> nm, type |-> ty, id |-> id, from |-> from, to |-> to, body |-> body,
   vCard |-> vc, query |-> q, show |-> show, invite |-> inv]

\* no unit is being classified
NoUnit == Stanza("none", Absent, NoId, NoJID, NoJID, "", NoVCard, NoQuery, "", FALSE)

\* a unit handed to client.send: what the claims read of it
Out(nm, ty, id, to, child) ==
  [name |-> nm, type |-> ty, id |-> id, to |-> to, child |-> child]

\* ---------------------------------------------------------------- promises
\* new Promise((resolve) => { resolvers[id] = resolve }): the promise is
\* pending until its resolve function is first called; later calls do nothing.
NewFuture(api, arg) == [api |-> api, arg |-> arg, state |-> "pending", value |-> ""]

\* resolver(value), for the resolver stored under id
CallResolver(futs, id, value) ==
  IF id \in DOMAIN futs /\ futs[id].state = "pending"
  THEN [futs EXCEPT ![id].state = "resolved", ![id].value = value]
  ELSE futs

\* ------------------------------------------------------ the handler state
\* What the handlers of one 'stanza' event read and write, threaded through the
\* chain. No handler assigns to this.resolvers.
Machine ==
  [profile |-> profile, directory |-> directory, resolvers |-> resolvers,
   futures |-> futures, convs |-> convs,
   emitted |-> {}, sent |-> <<>>, raised |-> FALSE]

\* a handler's return value and the state it leaves
Ret(r, m) == [ret |-> r, m |-> m]

\* this.emit(signal, ...)
Emit(m, signal) == [m EXCEPT !.emitted = @ \cup {signal}]

\* ---------------------------------------------------------------- maybeVCard
\* The vCard of the bot itself: the jid comes from the unit's 'to', every field
\* child overwrites the profile field of its name (FN is the one modelled).
maybeVCard(m, st) ==
  IF st.name = "iq" /\ st.vCard.present
  THEN Ret(TRUE, [m EXCEPT !.profile =
                    [jid |-> st.to,
                     FN |-> IF st.vCard.FN = Missing THEN @.FN ELSE st.vCard.FN]])
  ELSE Ret(FALSE, m)

\* -------------------------------------------------------------- maybeProfile
\* The try block of maybeProfile: the four assignments in order, stopping at the
\* first child that is missing. [buddy, failed].
ParseProfile(buddy, q) ==
  IF ~q.present \/ q.name = Missing
    THEN [buddy |-> buddy, failed |-> TRUE]
  ELSE IF q.mention_name = Missing
    THEN [buddy |-> [buddy EXCEPT !.name = q.name], failed |-> TRUE]
  ELSE IF q.timezone = Missing
    THEN [buddy |-> [buddy EXCEPT !.name = q.name, !.mention_name = q.mention_name],
          failed |-> TRUE]
  ELSE [buddy |-> [buddy EXCEPT !.name = q.name, !.mention_name = q.mention_name,
                                !.timezone = q.timezone,
                                !.utc_offset = Number(q.utc_offset)],
        failed |-> FALSE]

\* if (resolver) resolver(buddy): the value is the buddy object, which stays the
\* object stored under key, so the key stands for it
ResolveProfile(m, id, key) ==
  IF id \in m.resolvers
  THEN [m EXCEPT !.futures = CallResolver(@, id, key)]
  ELSE m

maybeProfile(m, st) ==
  IF st.name = "iq" /\ HasProfilePrefix(st.id)
  THEN LET jid == st.from
           key == BareStr(jid)
           old == BuddyOrNew(m.directory, key)
           p   == ParseProfile([old EXCEPT !.jid = jid], st.query)
           m1  == IF p.failed THEN Emit(m, "error") ELSE m
           m2  == [m1 EXCEPT !.directory = PutBuddy(@, key, p.buddy)]
       IN Ret(TRUE, ResolveProfile(m2, st.id, key))
  ELSE Ret(FALSE, m)

\* ------------------------------------------------------------ maybeBuddyList
\* the item stored under its whole jid, resource included
MergeItemByFullJid(dir, el) ==
  LET jid == el.jid
      key == JidString(jid)
      old == BuddyOrNew(dir, key)
  IN PutBuddy(dir, key,
              [old EXCEPT !.jid = jid, !.name = el.name,
                          !.mention_name = el.mention_name])

\* one roster item merged into the directory
MergeItem(dir, el) ==
  LET jid == el.jid
      key == BareStr(jid)
      old == BuddyOrNew(dir, key)
  IN PutBuddy(dir, key,
              [old EXCEPT !.jid = jid, !.name = el.name,
                          !.mention_name = el.mention_name])

\* query.getChildren('item').forEach(...)
RECURSIVE MergeItems(_, _)
MergeItems(dir, items) ==
  IF items = <<>> THEN dir
  ELSE MergeItems(MergeItem(dir, Head(items)), Tail(items))

\* Any unit with a query child is taken: the handler does not look at stanza.name.
maybeBuddyList(m, st) ==
  IF st.query.present
  THEN Ret(TRUE, [m EXCEPT !.directory = MergeItems(@, st.query.items)])
  ELSE Ret(FALSE, m)

\* ------------------------------------------------------------- maybePresence
\* show || stanza.attrs.type || 'online'
PresenceOf(st) ==
  IF st.show # "" THEN st.show
  ELSE IF st.type # Absent THEN st.type
  ELSE "online"

\* a fresh buddy with the presence, in place of the one stored
PresenceMergeFresh(dir, st) == [NewBuddy EXCEPT !.presence = PresenceOf(st)]

\* the buddy of the sender with its presence set
PresenceMerge(dir, st) ==
  [BuddyOrNew(dir, BareStr(st.from)) EXCEPT !.presence = PresenceOf(st)]

\* returns undefined, so the chain goes on to maybeInvite
maybePresence(m, st) ==
  IF st.name = "presence"
  THEN Ret(FALSE, [m EXCEPT !.directory =
                     PutBuddy(@, BareStr(st.from), PresenceMerge(m.directory, st))])
  ELSE Ret(FALSE, m)

\* --------------------------------------------------------------- maybeInvite
\* new JID(`${room.toString()}/${nick}`)
RoomNick(room, nick) ==
  JID(room.bare, IF room.resource = "" THEN nick ELSE room.resource \o "/" \o nick)

\* every x/invite child is answered with a join of the room; returns false
maybeInvite(m, st) ==
  IF st.name = "message" /\ st.invite
  THEN Ret(FALSE, [m EXCEPT !.sent =
                     Append(@, Out("presence", Absent, NoId,
                                   RoomNick(st.from, m.profile.FN), "join"))])
  ELSE Ret(FALSE, m)

\* -------------------------------------------------------------- maybeMessage
\* a chat or groupchat message with a body
IsConversational(st) ==
  st.name = "message" /\ st.body # "" /\ (st.type = "chat" \/ st.type = "groupchat")

\* the receipt check left out: no message is ever taken for an echo
HasResolverNever(m, st) == FALSE

\* if (this.resolvers[stanza.attrs.id])
HasResolver(m, st) == st.id \in m.resolvers

\* the nickname ignored: the first contact of the directory is taken
GroupUserFirst(m, st) == IF Len(m.directory) > 0 THEN 1 ELSE 0

\* the groupchat sender's directory entry: its index, 0 when _.find finds none
GroupUser(m, st) == FindByName(m.directory, getResource(st.from))

\* messageUser: the sender itself for chat, the jid of the found buddy for
\* groupchat
MessageUser(m, st) ==
  IF st.type = "chat" THEN st.from ELSE m.directory[GroupUser(m, st)].buddy.jid

\* the two jids compared whole, resource included
IsFromBotFull(m, user) == m.profile.jid = user

\* Object.is(this.profile.jid.bare().toString(), messageUser.bare().toString())
IsFromBot(m, user) == BareStr(m.profile.jid) = BareStr(user)

\* new botframework.Session(...) with its two store reads started and its 'send'
\* listener attached
NewConv(st, user) ==
  [type |-> st.type, from |-> st.from, user |-> user, pc |-> "load",
   sget |-> "pending", uget |-> "pending",
   sessionData |-> 0, userData |-> [data |-> 0, identity |-> Absent],
   dispatched |-> 0, ssave |-> "none", usave |-> "none"]

maybeMessage(m, st) ==
  IF ~IsConversational(st) THEN Ret(FALSE, m)
  ELSE IF HasResolver(m, st)
    THEN Ret(TRUE, [m EXCEPT !.futures = CallResolver(@, st.id, Absent)])
  ELSE IF st.type = "groupchat" /\ GroupUser(m, st) = 0
    THEN Ret(FALSE, Emit(m, "warn"))
  ELSE IF m.profile.jid = NoJID \/ MessageUser(m, st) = NoJID
    \* .bare() of undefined: the TypeError leaves the callback
    THEN Ret(TRUE, [m EXCEPT !.raised = TRUE])
  ELSE IF IsFromBot(m, MessageUser(m, st))
    THEN Ret(TRUE, Emit(m, "reply"))
  \* ret is still false when maybeMessage returns: it is set in a later callback
  ELSE Ret(FALSE, [m EXCEPT !.convs = Append(@, NewConv(st, MessageUser(m, st)))])

\* ------------------------------------------------------- the 'stanza' callback
\* maybeVCard || maybeProfile || maybeBuddyList || maybeMessage || maybePresence
\* || maybeInvite: the state after the chain
OnStanza(m, st) ==
  LET r1 == maybeVCard(m, st) IN
  IF r1.ret THEN r1.m ELSE
  LET r2 == maybeProfile(r1.m, st) IN
  IF r2.ret THEN r2.m ELSE
  LET r3 == maybeBuddyList(r2.m, st) IN
  IF r3.ret THEN r3.m ELSE
  LET r4 == maybeMessage(r3.m, st) IN
  IF r4.ret THEN r4.m ELSE
  LET r5 == maybePresence(r4.m, st) IN
  IF r5.ret THEN r5.m ELSE
  maybeInvite(r5.m, st).m

\* ------------------------------------------------------------- send pipeline
\* The part shared by fullProfile, send and sendChat: draw a uuid, hand the unit
\* to client.send, store the resolver of a new promise under the id.
Register(id, api, arg, out) ==
  /\ nextUuid <= MaxIds
  /\ nextUuid' = nextUuid + 1
  /\ resolvers' = resolvers \cup {id}
  /\ futures' = [i \in DOMAIN futures \cup {id} |->
                   IF i = id THEN NewFuture(api, arg) ELSE futures[i]]
  /\ sent' = <<out>>

\* fullProfile(jid): the id is `profile:${uuid.v1()}`, the query goes to the
\* bare address
fullProfile(jid) ==
  LET id == Id("profile:", nextUuid)
  IN Register(id, "fullProfile", jid, Out("iq", "get", id, Bare(jid), "profile"))

\* send(to, message): a chat message to the bare address of the target
send(to) ==
  LET id == Id("", nextUuid)
  IN Register(id, "send", to, Out("message", "chat", id, Bare(to), "body"))

\* sendChat(room, message): a groupchat message to room/FN
sendChat(room) ==
  LET id == Id("", nextUuid)
  IN Register(id, "sendChat", room,
              Out("message", "groupchat", id, RoomNick(Bare(room), profile.FN), "body"))

\* ------------------------------------------------------------------- inputs
Alice == JID("alice@x", "")
AliceDev == JID("alice@x", "dev")
Bot == JID("bot@x", "")
BotDev == JID("bot@x", "dev")
Room == JID("room@x", "")

\* the ids a message may carry: none, or a uuid
MessageIds == {NoId} \cup {Id("", n) : n \in 1..MaxIds}

\* sequences over S of length at most n
RECURSIVE SeqsUpTo(_, _)
SeqsUpTo(S, n) ==
  IF n = 0 THEN {<<>>}
  ELSE LET shorter == SeqsUpTo(S, n - 1)
       IN shorter \cup {Append(q, x) : q \in shorter, x \in S}

\* the reply to the vCard request, with or without an FN field
VCardUnit(fn) ==
  Stanza("iq", "result", NoId, NoJID, BotDev, "", VCard(fn), NoQuery, "", FALSE)

\* the reply to the roster request
RosterUnit(items) ==
  Stanza("iq", "result", NoId, NoJID, BotDev, "", NoVCard, RosterQuery(items), "", FALSE)

\* the reply to a profile query
ProfileUnit(n, from, q) ==
  Stanza("iq", "result", Id("profile:", n), from, BotDev, "", NoVCard, q, "", FALSE)

\* a presence update
PresenceUnit(from, ty, show, q) ==
  Stanza("presence", ty, NoId, from, BotDev, "", NoVCard, q, show, FALSE)

\* a message
MessageUnit(ty, id, from, body, q, inv) ==
  Stanza("message", ty, id, from, BotDev, body, NoVCard, q, "", inv)

\* a whole profile reply
FullProfileQuery == ProfileQuery("Alice", "al", "PST", "-8")

\* the senders of messages: a contact's device, the bot's own device (an echo),
\* and room occupants by nickname
ChatSenders == {AliceDev, BotDev}

GroupSenders == {JID("room@x", nick) : nick \in {"Alice", "Bot", "Eve"}}

\* chat and groupchat messages with a body: without an id or with a uuid, from
\* every sender; with the id of a profile query, from a contact
ConversationalUnits ==
  {MessageUnit("chat", id, from, "hi", NoQuery, FALSE) :
     id \in MessageIds, from \in ChatSenders}
  \cup
  {MessageUnit("groupchat", id, from, "hi", NoQuery, FALSE) :
     id \in MessageIds, from \in GroupSenders}
  \cup
  {MessageUnit("chat", Id("profile:", n), AliceDev, "hi", NoQuery, FALSE) : n \in 1..MaxIds}

\* messages that are not conversational or carry other children: an empty body,
\* no type, a room invite, a query child, an invite beside the body
OtherMessageUnits ==
  {MessageUnit("chat", Id("", 1), BotDev, "", NoQuery, FALSE),
   MessageUnit(Absent, Id("", 1), BotDev, "hi", NoQuery, FALSE),
   MessageUnit(Absent, NoId, Room, "", NoQuery, TRUE),
   MessageUnit("chat", NoId, AliceDev, "hi", RosterQuery(<<>>), FALSE),
   MessageUnit("chat", NoId, AliceDev, "hi", NoQuery, TRUE)}

\* the rosters that set up the names the router looks up: each contact under
\* its own name, or the bot under the name of the other contact, in both orders
RouterRosters ==
  {<<Item(Alice, "Alice", "al")>>,
   <<Item(Alice, "Alice", "al"), Item(Bot, "Bot", "bt")>>,
   <<Item(Alice, "Alice", "al"), Item(Bot, "Alice", "bt")>>,
   <<Item(Bot, "Alice", "bt"), Item(Alice, "Alice", "al")>>}

\* the units of the routing specification
MsgUnits ==
  {VCardUnit("Bot")}
  \cup {RosterUnit(items) : items \in RouterRosters}
  \cup ConversationalUnits \cup OtherMessageUnits

\* the units of the correlation specification: what can answer a request, or
\* be taken for an answer
CorrUnits ==
  {VCardUnit("Bot")}
  \cup {ProfileUnit(n, Alice, FullProfileQuery) : n \in 1..MaxIds}
  \cup {PresenceUnit(AliceDev, Absent, "away", NoQuery)}
  \cup {MessageUnit("chat", id, from, "hi", NoQuery, FALSE) :
           id \in MessageIds, from \in ChatSenders}
  \cup {MessageUnit("groupchat", id, JID("room@x", "Alice"), "hi", NoQuery, FALSE) :
           id \in MessageIds}
  \cup {MessageUnit("chat", Id("profile:", n), AliceDev, "hi", NoQuery, FALSE) : n \in 1..MaxIds}
  \cup {MessageUnit("chat", Id("", 1), BotDev, "", NoQuery, FALSE),
        MessageUnit(Absent, Id("", 1), BotDev, "hi", NoQuery, FALSE)}

\* the units of the session bridge specification
BridgeUnits ==
  {VCardUnit("Bot"),
   RosterUnit(<<Item(Alice, "Alice", "al")>>),
   MessageUnit("chat", NoId, AliceDev, "hi", NoQuery, FALSE),
   MessageUnit("groupchat", NoId, JID("room@x", "Alice"), "hi", NoQuery, FALSE)}

\* roster items: an address, with or without a resource, with or without its
\* name and mention_name attributes
RosterItems ==
  {Item(Alice, "Alice", "al"), Item(Bot, "Bot", "bt"), Item(AliceDev, Absent, Absent)}

\* profile replies: whole, or with children missing or empty
ProfileQueries ==
  {FullProfileQuery, ProfileQuery(Absent, "al", "PST", Missing),
   ProfileQuery("Bot", "al", Missing, Missing), ProfileQuery("Bot", Missing, Missing, Missing),
   NoQuery}

\* the units of the directory specification
DirUnits ==
  {RosterUnit(items) : items \in SeqsUpTo(RosterItems, MaxItems)}
  \cup {ProfileUnit(1, from, q) : from \in {Alice, Bot}, q \in ProfileQueries}
  \cup {PresenceUnit(from, Absent, show, NoQuery) :
           from \in {AliceDev, BotDev}, show \in {"", "away"}}
  \cup {PresenceUnit(AliceDev, "unavailable", "", NoQuery),
        PresenceUnit(AliceDev, Absent, "", RosterQuery(<<>>))}

\* ------------------------------------------------------------------- listen
Init ==
  /\ conn = "new"
  /\ profile = [jid |-> NoJID, FN |-> Absent]
  /\ directory = <<>>
  /\ resolvers = {}
  /\ futures = [i \in {} |-> NewFuture("send", NoJID)]
  /\ nextUuid = 1
  /\ unit = NoUnit
  /\ unitsSeen = 0
  /\ convs = <<>>
  /\ sessionStore = [k \in {} |-> 0]
  /\ userStore = [k \in {} |-> [data |-> 0, identity |-> Absent]]
  /\ emitted = {}
  /\ sent = <<>>
  /\ raised = FALSE

\* what a step leaves alone
Quiet == emitted' = {} /\ sent' = <<>> /\ raised' = FALSE

BotState == <<profile, directory, resolvers, futures, nextUuid>>

Bridge == <<convs, sessionStore, userStore>>

\* listen(): the client is created and the 'stanza' callback installed
Listen ==
  /\ conn = "new"
  /\ conn' = "connecting"
  /\ Quiet
  /\ UNCHANGED <<BotState, Bridge, unit, unitsSeen>>

\* the transport reports online: the promise of listen() resolves
Online ==
  /\ conn = "connecting"
  /\ conn' = "online"
  /\ Quiet
  /\ UNCHANGED <<BotState, Bridge, unit, unitsSeen>>

\* the roster asked for before the vCard
HandshakeRosterFirst ==
  /\ conn = "online"
  /\ conn' = "handshake"
  /\ sent' = <<Out("iq", "get", NoId, NoJID, "roster"),
               Out("iq", "get", NoId, NoJID, "vCard"),
               Out("presence", Absent, NoId, NoJID, "status")>>
  /\ emitted' = {} /\ raised' = FALSE
  /\ UNCHANGED <<BotState, Bridge, unit, unitsSeen>>

\* the first then(): vCard request, roster request, initial presence
Handshake ==
  /\ conn = "online"
  /\ conn' = "handshake"
  /\ sent' = <<Out("iq", "get", NoId, NoJID, "vCard"),
               Out("iq", "get", NoId, NoJID, "roster"),
               Out("presence", Absent, NoId, NoJID, "status")>>
  /\ emitted' = {} /\ raised' = FALSE
  /\ UNCHANGED <<BotState, Bridge, unit, unitsSeen>>

\* the second then(): setInterval of the keepalive
StartKeepalive ==
  /\ conn = "handshake"
  /\ conn' = "alive"
  /\ Quiet
  /\ UNCHANGED <<BotState, Bridge, unit, unitsSeen>>

\* the keepalive timer fires: an empty message is sent
Keepalive ==
  /\ conn = "alive"
  /\ unit = NoUnit
  /\ sent' = <<Out("message", Absent, NoId, NoJID, "none")>>
  /\ emitted' = {} /\ raised' = FALSE
  /\ UNCHANGED <<conn, BotState, Bridge, unit, unitsSeen>>

\* The server answers only a client that has sent its requests, and the two
\* then() callbacks of listen() run back to back in one turn of the event loop.
Connected == conn = "alive"

\* ------------------------------------------------------------ inbound units
\* the unit would start a dialog session
StartsSession(st) == Len(OnStanza(Machine, st).convs) > Len(convs)

\* the transport raises 'stanza' with the next unit, while at most n sessions
\* have been started
ArriveWithin(st, n) ==
  /\ Connected
  /\ unit = NoUnit
  /\ unitsSeen < MaxUnits
  /\ StartsSession(st) => Len(convs) < n
  /\ unit' = st
  /\ unitsSeen' = unitsSeen + 1
  /\ Quiet
  /\ UNCHANGED <<conn, BotState, Bridge>>

Arrive(st) == ArriveWithin(st, MaxConvs)

\* the same, with room for sessions that overlap
ArriveOverlapping(st) == ArriveWithin(st, MaxOverlap)

\* the 'stanza' callback runs the handler chain on the unit
Classify ==
  /\ unit # NoUnit
  /\ LET m == OnStanza(Machine, unit)
     IN /\ profile' = m.profile
        /\ directory' = m.directory
        /\ futures' = m.futures
        /\ convs' = m.convs
        /\ emitted' = m.emitted
        /\ sent' = m.sent
        /\ raised' = m.raised
  /\ unit' = NoUnit
  /\ UNCHANGED <<conn, resolvers, nextUuid, unitsSeen, sessionStore, userStore>>

\* --------------------------------------------------- calls of the public API
CallFullProfile ==
  /\ Connected /\ unit = NoUnit
  /\ \E jid \in {AliceDev} : fullProfile(jid)
  /\ emitted' = {} /\ raised' = FALSE
  /\ UNCHANGED <<conn, profile, directory, unit, unitsSeen, Bridge>>

CallSend ==
  /\ Connected /\ unit = NoUnit
  /\ \E to \in {AliceDev} : send(to)
  /\ emitted' = {} /\ raised' = FALSE
  /\ UNCHANGED <<conn, profile, directory, unit, unitsSeen, Bridge>>

CallSendChat ==
  /\ Connected /\ unit = NoUnit
  /\ \E room \in {Room} : sendChat(room)
  /\ emitted' = {} /\ raised' = FALSE
  /\ UNCHANGED <<conn, profile, directory, unit, unitsSeen, Bridge>>

\* ------------------------------------------------------------ session bridge
\* getSessionData: the stored value, undefined (0) when the store has none
getSessionData(jid) ==
  IF BareStr(jid) \in DOMAIN sessionStore THEN sessionStore[BareStr(jid)] ELSE 0

\* getUserData: userdata || {}
getUserData(jid) ==
  IF BareStr(jid) \in DOMAIN userStore THEN userStore[BareStr(jid)]
  ELSE [data |-> 0, identity |-> Absent]

\* this.directory[messageUser.bare().toString()]: the buddy object stored under
\* the key (the key stands for it), undefined when there is none
IdentityOf(jid) == IF HasKey(directory, BareStr(jid)) THEN BareStr(jid) ELSE Absent

\* f with key k set to v
Store(f, k, v) == [x \in DOMAIN f \cup {k} |-> IF x = k THEN v ELSE f[x]]

Async == unit = NoUnit

\* the session store answers the read of conversation c, or fails
GetSession(c, ok) ==
  /\ Async /\ convs[c].pc = "load" /\ convs[c].sget = "pending"
  /\ convs' = [convs EXCEPT ![c].sget = IF ok THEN "ok" ELSE "fail",
                             ![c].sessionData = IF ok THEN getSessionData(convs[c].user) ELSE @,
                             ![c].pc = IF ok THEN @ ELSE "failed"]
  /\ Quiet
  /\ UNCHANGED <<conn, BotState, unit, unitsSeen, sessionStore, userStore>>

\* the user store answers the read of conversation c, or fails
GetUser(c, ok) ==
  /\ Async /\ convs[c].pc = "load" /\ convs[c].uget = "pending"
  /\ convs' = [convs EXCEPT ![c].uget = IF ok THEN "ok" ELSE "fail",
                             ![c].userData = IF ok THEN getUserData(convs[c].user) ELSE @,
                             ![c].pc = IF ok THEN @ ELSE "failed"]
  /\ Quiet
  /\ UNCHANGED <<conn, BotState, unit, unitsSeen, sessionStore, userStore>>

\* the identity left out of the user data
WithoutIdentity(cv) == cv

\* ses.userData = userData || {}; ses.userData.identity = this.directory[...]
WithIdentity(cv) == [cv EXCEPT !.userData.identity = IdentityOf(cv.user)]

\* ses.dispatch(sessionData, stanza)
Dispatch(cv) == [cv EXCEPT !.dispatched = @ + 1, !.pc = "engine"]

\* the then() of the two reads: a chat message is dispatched, a groupchat message
\* goes to the group filter first
LoadThen(c) ==
  /\ Async /\ convs[c].pc = "load" /\ convs[c].sget = "ok" /\ convs[c].uget = "ok"
  /\ convs' = [convs EXCEPT ![c] =
                  IF @.type = "groupchat" THEN [WithIdentity(@) EXCEPT !.pc = "filter"]
                  ELSE Dispatch(WithIdentity(@))]
  /\ Quiet
  /\ UNCHANGED <<conn, BotState, unit, unitsSeen, sessionStore, userStore>>

\* the group filter answers: dispatch only if it admits the message
Filter(c, shouldDispatch) ==
  /\ Async /\ convs[c].pc = "filter"
  /\ convs' = [convs EXCEPT ![c] = IF shouldDispatch THEN Dispatch(@)
                                     ELSE [@ EXCEPT !.pc = "idle"]]
  /\ Quiet
  /\ UNCHANGED <<conn, BotState, unit, unitsSeen, sessionStore, userStore>>

\* the session emits 'send': without a message nothing happens, with one the
\* session state and user data the dialog left are saved
EngineSend(c, hasMsg) ==
  /\ Async /\ convs[c].pc = "engine"
  /\ convs' = [convs EXCEPT ![c] =
                  IF hasMsg
                  THEN [@ EXCEPT !.pc = "save", !.ssave = "pending", !.usave = "pending",
                                 !.sessionData = @ + 1, !.userData.data = @ + 1]
                  ELSE [@ EXCEPT !.pc = "idle"]]
  /\ Quiet
  /\ UNCHANGED <<conn, BotState, unit, unitsSeen, sessionStore, userStore>>

\* the dialog's turn applied to the state that is stored now, not to the state
\* the conversation loaded
SessionOnStored(c) == getSessionData(convs[c].user) + 1

\* ses.sessionState as the 'send' listener passes it to setSessionData: the
\* state the dialog computed from what this conversation loaded
SessionToSave(c) == convs[c].sessionData

\* setSessionData completes, or fails; the two saves are started together, so
\* one still completes after the other has failed
SaveSession(c, ok) ==
  /\ Async /\ convs[c].pc \in {"save", "failed"} /\ convs[c].ssave = "pending"
  /\ convs' = [convs EXCEPT ![c].ssave = IF ok THEN "ok" ELSE "fail",
                             ![c].pc = IF ok THEN @ ELSE "failed"]
  /\ sessionStore' = IF ok THEN Store(sessionStore, BareStr(convs[c].user),
                                      SessionToSave(c))
                     ELSE sessionStore
  /\ Quiet
  /\ UNCHANGED <<conn, BotState, unit, unitsSeen, userStore>>

\* a failed setUserData takes the connection down with it
SaveUserFatal(c, ok) ==
  /\ Async /\ convs[c].pc \in {"save", "failed"} /\ convs[c].usave = "pending"
  /\ convs' = [convs EXCEPT ![c].usave = IF ok THEN "ok" ELSE "fail",
                             ![c].pc = IF ok THEN @ ELSE "failed"]
  /\ userStore' = IF ok THEN Store(userStore, BareStr(convs[c].user), convs[c].userData)
                  ELSE userStore
  /\ conn' = IF ok THEN conn ELSE "new"
  /\ Quiet
  /\ UNCHANGED <<BotState, unit, unitsSeen, sessionStore>>

\* setUserData completes, or fails
SaveUser(c, ok) ==
  /\ Async /\ convs[c].pc \in {"save", "failed"} /\ convs[c].usave = "pending"
  /\ convs' = [convs EXCEPT ![c].usave = IF ok THEN "ok" ELSE "fail",
                             ![c].pc = IF ok THEN @ ELSE "failed"]
  /\ userStore' = IF ok THEN Store(userStore, BareStr(convs[c].user), convs[c].userData)
                  ELSE userStore
  /\ Quiet
  /\ UNCHANGED <<conn, BotState, unit, unitsSeen, sessionStore>>

\* the reply sent as soon as the session emits 'send', whatever the saves did
SaveThenEarly(c) ==
  /\ Async /\ convs[c].pc = "save"
  /\ IF convs[c].type = "chat" THEN send(convs[c].from) ELSE sendChat(convs[c].from)
  /\ convs' = [convs EXCEPT ![c].pc = "replied"]
  /\ emitted' = {"send"} /\ raised' = FALSE
  /\ UNCHANGED <<conn, profile, directory, unit, unitsSeen, sessionStore, userStore>>

\* the then() of the two saves: the reply goes out with send or sendChat, to the
\* address the message came from, and 'send' is emitted
SaveThen(c) ==
  /\ Async /\ convs[c].pc = "save" /\ convs[c].ssave = "ok" /\ convs[c].usave = "ok"
  /\ IF convs[c].type = "chat" THEN send(convs[c].from) ELSE sendChat(convs[c].from)
  /\ convs' = [convs EXCEPT ![c].pc = "replied"]
  /\ emitted' = {"send"} /\ raised' = FALSE
  /\ UNCHANGED <<conn, profile, directory, unit, unitsSeen, sessionStore, userStore>>

\* ------------------------------------------------------------ specification
\* the steps of the conversations in progress
BridgeStep ==
  \/ \E c \in 1..Len(convs), ok \in BOOLEAN : GetSession(c, ok)
  \/ \E c \in 1..Len(convs), ok \in BOOLEAN : GetUser(c, ok)
  \/ \E c \in 1..Len(convs) : LoadThen(c)
  \/ \E c \in 1..Len(convs), shouldDispatch \in BOOLEAN : Filter(c, shouldDispatch)
  \/ \E c \in 1..Len(convs), hasMsg \in BOOLEAN : EngineSend(c, hasMsg)
  \/ \E c \in 1..Len(convs), ok \in BOOLEAN : SaveSession(c, ok)
  \/ \E c \in 1..Len(convs), ok \in BOOLEAN : SaveUser(c, ok)
  \/ \E c \in 1..Len(convs) : SaveThen(c)

\* the bot as the sample runs it: it answers what arrives and calls nothing else
Next ==
  \/ Listen
  \/ Online
  \/ Handshake
  \/ StartKeepalive
  \/ Keepalive
  \/ \E st \in MsgUnits : Arrive(st)
  \/ Classify
  \/ BridgeStep

Spec == Init /\ [][Next]_vars

\* the bot with a caller of fullProfile, send and sendChat beside it
NextCorr ==
  \/ Listen
  \/ Online
  \/ Handshake
  \/ StartKeepalive
  \/ \E st \in CorrUnits : Arrive(st)
  \/ Classify
  \/ CallFullProfile
  \/ CallSend
  \/ CallSendChat
  \/ BridgeStep

SpecCorr == Init /\ [][NextCorr]_vars

\* the session bridge with sessions that overlap: the bot learns its own address
\* and one contact, and chat and groupchat messages of that contact arrive
NextBridge ==
  \/ Listen
  \/ Online
  \/ Handshake
  \/ StartKeepalive
  \/ \E st \in BridgeUnits : ArriveOverlapping(st)
  \/ Classify
  \/ BridgeStep

SpecBridge == Init /\ [][NextBridge]_vars

\* the directory handlers alone: profile, roster and presence units
NextDir ==
  \/ Listen
  \/ Online
  \/ Handshake
  \/ StartKeepalive
  \/ \E st \in DirUnits : Arrive(st)
  \/ Classify

SpecDir == Init /\ [][NextDir]_vars

\* ======================================================= correlation registry
\* the ids of the futures that send and sendChat returned
SendIds == {id \in DOMAIN futures : futures[id].api \in {"send", "sendChat"}}

\* the ids of the futures that fullProfile returned
ProfileIds == {id \in DOMAIN futures : futures[id].api = "fullProfile"}

\* A unit that the chain hands to the message router: a chat or groupchat message
\* with a body (no iq handler takes a message) that carries no query child.
ReachesRouter(st) == IsConversational(st) /\ ~st.query.present

\* the server's copy of the message sent under id
Echo(st, id) == ReachesRouter(st) /\ st.id = id

\* the step leaves no trace: nothing emitted, sent or thrown, and the directory,
\* the profile, the futures, the conversations and the stores as they were
NoEffect ==
  /\ emitted' = {} /\ sent' = <<>> /\ raised' = FALSE
  /\ UNCHANGED <<profile, directory, resolvers, futures, convs, sessionStore, userStore>>

\* C1: the future of send / sendChat stays pending until a message unit with the
\* generated id is classified (no other step resolves it); the first echo
\* resolves it, without a value; once resolved it never changes again; and a
\* second echo with the same id has no effect at all: no event, no unit sent, no
\* conversation started, no change of the directory.
C1_EchoResolvesOnce ==
  [][\A id \in SendIds :
       /\ (futures[id].state = "pending" /\ futures'[id].state = "resolved")
            => (unit.name = "message" /\ unit.id = id)
       /\ (Echo(unit, id) /\ futures[id].state = "pending")
            => (futures'[id].state = "resolved" /\ futures'[id].value = Absent)
       /\ futures[id].state = "resolved" => futures'[id] = futures[id]
       /\ (Echo(unit, id) /\ futures[id].state = "resolved") => NoEffect]_vars

\* C1 witness: a send future is resolved and a second echo with its id is being
\* classified
C1_DuplicateEcho ==
  \E id \in SendIds : futures[id].state = "resolved" /\ Echo(unit, id)

\* the sender the router resolves for a unit is a contact other than the bot
SenderIsOther(st) ==
  /\ profile.jid # NoJID
  /\ IF st.type = "chat" THEN BareStr(st.from) # BareStr(profile.jid)
     ELSE /\ FindByName(directory, getResource(st.from)) # 0
          /\ directory[FindByName(directory, getResource(st.from))].key # BareStr(profile.jid)

\* C2 as claimed: a message whose sender is a contact other than the bot leaves a
\* pending send future pending, even when it carries the id of that future.
C2_OnlySelfEchoResolves ==
  [][\A id \in SendIds :
       (ReachesRouter(unit) /\ unit.id = id /\ SenderIsOther(unit)
        /\ futures[id].state = "pending")
         => futures'[id].state = "pending"]_vars

\* C3 as claimed: the future of fullProfile is resolved only by the info-query
\* reply with its id, and with the directory contact of the queried address.
C3_OnlyReplyResolves ==
  [][\A id \in ProfileIds :
       (futures[id].state = "pending" /\ futures'[id].state = "resolved")
         => /\ unit.name = "iq" /\ unit.id = id
            /\ futures'[id].value = BareStr(futures[id].arg)
            /\ HasKey(directory', BareStr(futures[id].arg))]_vars

\* C4 as claimed: an id is removed from the registry when the unit that answers
\* it is processed, so every key of the registry is a request not yet answered.
C4_RegistryHoldsPending ==
  \A id \in resolvers : futures[id].state = "pending"

\* ============================================================ message router
\* the directory entries whose display name is nick
NameHits(nick) == {i \in 1..Len(directory) : directory[i].buddy.name = nick}

\* a groupchat message that reaches the router and answers no pending request
GroupCase(st) == ReachesRouter(st) /\ st.type = "groupchat" /\ st.id \notin resolvers

\* the conversation that the step started, if it started one
Started == convs'[Len(convs')]

StartsConv == Len(convs') = Len(convs) + 1 /\ SubSeq(convs', 1, Len(convs)) = convs

\* C5: a groupchat message with a body and no pending correlation id. With no
\* contact named like the sender's nickname, 'warn' is emitted and no
\* conversation starts (no store is read, nothing is dispatched). With exactly
\* one, the identity is the address that contact is stored under: the message is
\* an echo if that is the bot's address, and else starts a conversation of that
\* address (observed once the bot's own address is known).
C5_GroupSenderByName ==
  [][GroupCase(unit) =>
       LET hits == NameHits(getResource(unit.from))
       IN /\ hits = {} =>
               /\ emitted' = {"warn"}
               /\ UNCHANGED <<convs, sessionStore, userStore, futures, directory>>
          /\ (Cardinality(hits) = 1 /\ profile.jid # NoJID) =>
               LET key == directory[CHOOSE i \in hits : TRUE].key
               IN /\ "warn" \notin emitted'
                  /\ IF key = BareStr(profile.jid)
                     THEN emitted' = {"reply"} /\ convs' = convs
                     ELSE /\ StartsConv
                          /\ BareStr(Started.user) = key
                          /\ Started.type = "groupchat"]_vars

\* C5 witness: with alice@x named Alice and a second contact of another name, a
\* message of room@x/Alice has started a conversation for alice@x
C5_ResolvedAlice ==
  /\ Len(directory) = 2
  /\ Cardinality(NameHits("Alice")) = 1
  /\ \E c \in 1..Len(convs) :
       /\ convs[c].type = "groupchat"
       /\ convs[c].from = JID("room@x", "Alice")
       /\ BareStr(convs[c].user) = "alice@x"

\* C6 as claimed: a groupchat message whose nickname is the display name of more
\* than one contact is dropped with a 'warn': no identity is chosen, it is
\* neither an echo nor the start of a conversation.
C6_AmbiguousNameDropped ==
  [][(GroupCase(unit) /\ profile.jid # NoJID
      /\ Cardinality(NameHits(getResource(unit.from))) > 1)
       => ("warn" \in emitted' /\ "reply" \notin emitted' /\ convs' = convs)]_vars

\* the router resolves the sender of the unit to the bot's own address
ResolvedIsBot(st) ==
  /\ profile.jid # NoJID
  /\ IF st.type = "chat" THEN BareStr(st.from) = BareStr(profile.jid)
     ELSE /\ FindByName(directory, getResource(st.from)) # 0
          /\ directory[FindByName(directory, getResource(st.from))].key = BareStr(profile.jid)

\* C7: a chat or groupchat message whose resolved sender is the bot never reaches
\* the session bridge: no conversation starts, no store changes, nothing is sent
\* and no 'send' is emitted. If its id is a key of the registry, the future of
\* that id is resolved after it and, if it already was, stays as it was; no other
\* future changes. If its id is no key, 'reply' is emitted.
C7_SelfEchoNotBridged ==
  [][(ReachesRouter(unit) /\ ResolvedIsBot(unit)) =>
       /\ UNCHANGED <<convs, sessionStore, userStore, directory>>
       /\ sent' = <<>> /\ "send" \notin emitted'
       /\ \A id \in DOMAIN futures :
            IF id = unit.id
            THEN /\ futures'[id].state = "resolved"
                 /\ futures[id].state = "resolved" => futures'[id] = futures[id]
            ELSE futures'[id] = futures[id]
       /\ unit.id \notin resolvers => emitted' = {"reply"}]_vars

\* C7 witness: a message of the bot itself has been classified as an echo
C7_SelfEchoSeen == emitted = {"reply"} /\ convs = <<>> /\ profile.jid # NoJID

\* ============================================================ session bridge
\* a chat message of a contact other than the bot that reaches the router and
\* answers no pending request
ChatCase(st) ==
  /\ ReachesRouter(st) /\ st.type = "chat" /\ st.id \notin resolvers
  /\ profile.jid # NoJID /\ BareStr(st.from) # BareStr(profile.jid)

\* C8: a chat message with a body from a contact other than the bot starts one
\* conversation for the sender's bare address. That conversation is dispatched
\* at most once, by the step that follows the two completed reads, and never
\* filtered or dropped instead; at the dispatch the identity is the directory
\* contact stored under the sender's bare address at that time (undefined if
\* there is none), and with nothing stored for the sender the user data is
\* otherwise empty and the session state undefined.
C8_ChatDispatch ==
  [][/\ ChatCase(unit) =>
          /\ StartsConv
          /\ Started.type = "chat" /\ Started.pc = "load" /\ Started.dispatched = 0
          /\ Started.user = unit.from
     /\ \A c \in 1..Len(convs) :
          LET key == BareStr(convs[c].user)
          IN /\ (convs[c].type = "chat" /\ convs'[c].dispatched # convs[c].dispatched) =>
                  /\ convs[c].dispatched = 0 /\ convs'[c].dispatched = 1
                  /\ convs[c].sget = "ok" /\ convs[c].uget = "ok"
                  /\ convs'[c].userData.identity =
                       (IF HasKey(directory, key) THEN key ELSE Absent)
                  /\ key \notin DOMAIN userStore => convs'[c].userData.data = 0
                  /\ key \notin DOMAIN sessionStore => convs'[c].sessionData = 0
             /\ (convs[c].type = "chat" /\ convs[c].pc = "load"
                 /\ convs'[c].pc \notin {"load", "failed"}) => convs'[c].dispatched = 1]_vars

\* C8 witness: a chat message of alice@x, known to the directory, has been
\* dispatched with empty user data, her contact as identity and no session state
C8_Dispatched ==
  \E c \in 1..Len(convs) :
    /\ convs[c].type = "chat" /\ convs[c].dispatched = 1 /\ convs[c].pc = "engine"
    /\ convs[c].userData = [data |-> 0, identity |-> "alice@x"]
    /\ convs[c].sessionData = 0

\* ================================================================= directory
\* the reply to the roster request, as the chain sees it: an info-query unit
\* with a query child that the vCard and profile handlers leave alone
RosterReply(st) ==
  st.name = "iq" /\ st.query.present /\ ~st.vCard.present /\ ~HasProfilePrefix(st.id)

\* the reply to a profile query, as the chain sees it
ProfileReply(st) == st.name = "iq" /\ HasProfilePrefix(st.id) /\ ~st.vCard.present

\* a presence update that the chain hands to the presence handler
PresenceUpdate(st) == st.name = "presence" /\ ~st.query.present

\* no two items have the same bare address
DistinctBare(items) ==
  \A i, j \in 1..Len(items) : i # j => BareStr(items[i].jid) # BareStr(items[j].jid)

\* the directory after the step has one entry per item, under the bare address of
\* the item, with the item's name and mention_name and no presence
OneEntryPerItem(items) ==
  /\ Len(directory') = Len(items)
  /\ \A j \in 1..Len(directory') :
       \E i \in 1..Len(items) : directory'[j].key = BareStr(items[i].jid)
  /\ \A i \in 1..Len(items) :
       /\ HasKey(directory', BareStr(items[i].jid))
       /\ LET b == BuddyOrNew(directory', BareStr(items[i].jid))
          IN /\ b.name = items[i].name
             /\ b.mention_name = items[i].mention_name
             /\ b.presence = Absent

\* C9 as claimed: from an empty directory, a roster reply with N items leaves
\* exactly N entries, one per item.
C9_RosterOfN ==
  [][(RosterReply(unit) /\ directory = <<>>) => OneEntryPerItem(unit.query.items)]_vars

\* C9 amended: from an empty directory, a roster reply with N items of pairwise
\* distinct bare addresses leaves exactly N entries, each under the bare address
\* of its item, with the item's name and mention_name and no presence.
C9_RosterOfDistinctN ==
  [][(RosterReply(unit) /\ directory = <<>> /\ DistinctBare(unit.query.items))
       => OneEntryPerItem(unit.query.items)]_vars

\* C9 witness: the first unit was a roster reply and left two entries
C9_TwoEntries == unit = NoUnit /\ unitsSeen = 1 /\ Len(directory) = 2

\* C10: a presence update changes nothing but the presence of the sender's
\* contact (created if it was unknown): every other contact, and the jid, name,
\* mention_name, timezone and utc_offset of that one, stay. A roster reply or a
\* profile reply leaves the presence of every contact as it was, and gives none
\* to a contact it creates.
C10_PresenceFrame ==
  [][/\ PresenceUpdate(unit) =>
          LET k   == BareStr(unit.from)
              old == BuddyOrNew(directory, k)
              new == BuddyOrNew(directory', k)
          IN /\ Len(directory') = IF HasKey(directory, k) THEN Len(directory)
                                  ELSE Len(directory) + 1
             /\ \A i \in 1..Len(directory) :
                  directory[i].key # k => directory'[i] = directory[i]
             /\ HasKey(directory', k)
             /\ new.presence # Absent
             /\ new = [old EXCEPT !.presence = new.presence]
     /\ (RosterReply(unit) \/ ProfileReply(unit)) =>
          \A i \in 1..Len(directory') :
            directory'[i].buddy.presence
              = BuddyOrNew(directory, directory'[i].key).presence]_vars

\* C10 witness: a contact has a name and a timezone from a profile reply and a
\* presence from a presence update
C10_MergedContact ==
  \E i \in 1..Len(directory) :
    /\ directory[i].buddy.presence = "away"
    /\ directory[i].buddy.name = "Alice"
    /\ directory[i].buddy.timezone = "PST"

\* C11 as claimed: no merge clears a field: a name, mention_name, timezone or
\* presence that a contact has is still there, with some value, after any unit.
C11_NoFieldCleared ==
  [][\A i \in 1..Len(directory) :
       LET old == directory[i].buddy
           new == BuddyOrNew(directory', directory[i].key)
       IN /\ old.name # Absent => new.name # Absent
          /\ old.mention_name # Absent => new.mention_name # Absent
          /\ old.timezone # Absent => new.timezone # Absent
          /\ old.presence # Absent => new.presence # Absent]_vars

\* the query child of the reply lacks a child that maybeProfile reads
Malformed(q) == ~q.present \/ Missing \in {q.name, q.mention_name, q.timezone}

\* C12 as claimed: a profile reply that lacks an expected child is handled with
\* an 'error' and leaves the directory and every future as they were.
C12_MalformedLeavesState ==
  [][(ProfileReply(unit) /\ Malformed(unit.query))
       => (emitted' = {"error"} /\ directory' = directory /\ futures' = futures)]_vars

\* ============================================================ handler chain
\* C13 as claimed: a message that the message handler hands to the session
\* bridge is evaluated by no later handler: it triggers no room join, even when
\* it carries an x/invite child beside its body.
C13_FirstMatchWins ==
  [][(IsConversational(unit) /\ StartsConv) => sent' = <<>>]_vars

\* ============================================================ replies
\* the step transmits the reply of conversation c
Replies(c) == convs[c].pc # "replied" /\ convs'[c].pc = "replied"

\* the step hands a message with a body to the transport
SendsBody == \E i \in 1..Len(sent') : sent'[i].name = "message" /\ sent'[i].child = "body"

\* C14 as claimed: the reply to a chat message goes out in a message unit
\* addressed to the full address the message came from, resource included.
C14_ReplyToFullAddress ==
  [][\A c \in 1..Len(convs) :
       (Replies(c) /\ convs[c].type = "chat")
         => (Len(sent') = 1 /\ sent'[1].name = "message" /\ sent'[1].to = convs[c].from)]_vars

\* C15: a message with a body is transmitted only by the step that follows the
\* two completed saves of one conversation: that conversation was dispatched,
\* its session state and its user data have been written to the stores, and
\* neither save is pending or failed. A conversation whose dialog emitted no
\* message, or whose message the group filter rejected, never replies.
C15_ReplyAfterBothSaves ==
  [][/\ SendsBody =>
          \E c \in 1..Len(convs) :
            /\ Replies(c)
            /\ convs[c].dispatched = 1
            /\ convs[c].ssave = "ok" /\ convs[c].usave = "ok"
            /\ BareStr(convs[c].user) \in DOMAIN sessionStore
            /\ BareStr(convs[c].user) \in DOMAIN userStore
     /\ \A c \in 1..Len(convs) :
          /\ Replies(c) => (SendsBody /\ emitted' = {"send"})
          /\ convs[c].pc = "idle" => convs'[c].pc = "idle"]_vars

\* C15 witness: a conversation has replied after both of its saves
C15_Replied ==
  \E c \in 1..Len(convs) :
    /\ convs[c].pc = "replied" /\ convs[c].ssave = "ok" /\ convs[c].usave = "ok"
    /\ emitted = {"send"} /\ Len(sent) = 1

\* ================================================================ handshake
\* how far listen() has got
Stage(c) ==
  CASE c = "new" -> 0 [] c = "connecting" -> 1 [] c = "online" -> 2
    [] c = "handshake" -> 3 [] c = "alive" -> 4

\* the children of the units the step hands to the transport, in order
SentChildren == [i \in 1..Len(sent') |-> sent'[i].child]

\* C16: listen() goes through its stages in order and never back. The step that
\* follows the online event, and no other step, transmits handshake units:
\* exactly the vCard request, the roster request and the initial presence, in
\* this order. The keepalive is started by the next stage, after that step, and
\* the chain that listen() returns is complete (its future resolved) only with
\* that stage. No keepalive message, and no inbound unit, is seen before it.
C16_HandshakeOrder ==
  [][/\ Stage(conn') \in {Stage(conn), Stage(conn) + 1}
     /\ (conn = "online" /\ conn' = "handshake")
          <=> SentChildren = <<"vCard", "roster", "status">>
     /\ \A i \in 1..Len(sent') :
          /\ sent'[i].child \in {"vCard", "roster", "status"}
               => (conn = "online" /\ conn' = "handshake")
          /\ sent'[i].child = "none" => conn = "alive"
     /\ unit' # NoUnit => conn = "alive"]_vars

\* C16 witness: the three handshake units have just been sent and the keepalive
\* is not started yet
C16_HandshakeSent == conn = "handshake" /\ Len(sent) = 3

\* ============================================================ store failures
\* the outcomes of the store operations of a conversation
StoreOps(cv) == {cv.sget, cv.uget, cv.ssave, cv.usave}

\* the step is the failure of a store operation of conversation c
Fails(c) ==
  \/ convs[c].sget # "fail" /\ convs'[c].sget = "fail"
  \/ convs[c].uget # "fail" /\ convs'[c].uget = "fail"
  \/ convs[c].ssave # "fail" /\ convs'[c].ssave = "fail"
  \/ convs[c].usave # "fail" /\ convs'[c].usave = "fail"

\* C17: the failure of a store read or save of a conversation ends that
\* conversation and nothing else: the step transmits nothing, emits nothing and
\* throws nothing, and leaves the connection, the self profile, the directory,
\* the registry and its futures, the unit being classified, both stores and
\* every other conversation as they were. A conversation with a failed store
\* operation is never dispatched afterwards and never replies.
C17_FailureIsLocal ==
  [][\A c \in 1..Len(convs) :
       /\ Fails(c) =>
            /\ convs'[c].pc = "failed"
            /\ \A d \in 1..Len(convs) : d # c => convs'[d] = convs[d]
            /\ sent' = <<>> /\ emitted' = {} /\ raised' = FALSE
            /\ UNCHANGED <<conn, profile, directory, resolvers, futures, nextUuid,
                           unit, unitsSeen, sessionStore, userStore>>
       /\ "fail" \in StoreOps(convs[c]) =>
            /\ ~Replies(c)
            /\ convs'[c].dispatched = convs[c].dispatched
            /\ convs'[c].pc = "failed"]_vars

\* C17 witness: a store operation of one conversation failed, and a conversation
\* started after it has loaded, been dispatched, saved and replied
C17_OtherReplied ==
  \E c, d \in 1..Len(convs) :
    /\ c < d
    /\ convs[c].pc = "failed" /\ "fail" \in StoreOps(convs[c])
    /\ convs[d].pc = "replied" /\ "fail" \notin StoreOps(convs[d])

\* ============================================================ unit category
\* C18 as claimed: a presence unit that carries a query child still has its
\* presence recorded for the sender, and a chat message with a body and a query
\* child from another contact still starts a conversation.
C18_CategoryMatters ==
  [][/\ (unit.name = "presence" /\ unit.query.present)
          => /\ HasKey(directory', BareStr(unit.from))
             /\ BuddyOrNew(directory', BareStr(unit.from)).presence # Absent
     /\ (IsConversational(unit) /\ unit.query.present /\ unit.type = "chat"
         /\ unit.id \notin resolvers
         /\ profile.jid # NoJID /\ BareStr(unit.from) # BareStr(profile.jid))
          => StartsConv]_vars

\* ============================================================ overlapping turns
\* conversations c and d are two chat conversations of one contact
SameContact(c, d) ==
  /\ c # d
  /\ convs[c].type = "chat" /\ convs[d].type = "chat"
  /\ BareStr(convs[c].user) = BareStr(convs[d].user)

\* C19: nothing orders the conversations of one contact. A completed session
\* save stores the state computed from what its own conversation loaded,
\* whatever another conversation has stored since, and the step that completes
\* a read or a save of one conversation leaves every other conversation, of the
\* same contact too, where it was.
C19_SaveFromLoadedState ==
  [][\A c \in 1..Len(convs) :
       /\ (convs[c].ssave = "pending" /\ convs'[c].ssave = "ok")
            => sessionStore'[BareStr(convs[c].user)] = convs[c].sessionData
       /\ convs'[c] # convs[c]
            => \A d \in 1..Len(convs) : d # c => convs'[d] = convs[d]]_vars

\* C19 witness: two chat conversations of one contact both loaded the empty
\* session state before either saved, both computed the first turn from it and
\* both saved it: the store holds one turn where two were taken
C19_LostUpdate ==
  \E c, d \in 1..Len(convs) :
    /\ SameContact(c, d)
    /\ convs[c].ssave = "ok" /\ convs[d].ssave = "ok"
    /\ convs[c].sessionData = 1 /\ convs[d].sessionData = 1
    /\ sessionStore[BareStr(convs[c].user)] = 1

\* ============================================================ self profile
\* C20 as claimed: classifying a chat or groupchat message never throws: the
\* address of the self profile is defined whenever the router reads it.
C20_RouterNeverRaises ==
  [][IsConversational(unit) => raised' = FALSE]_vars

====
